---- MODULE Spec2Model ----
(***************************************************************************)
(* A model of scripts/cerebras_client.py: configuration resolution         *)
(* (get_config), client construction (CerebrasClient.__init__), the        *)
(* request modes complete / chat / stream / code, and the command          *)
(* dispatcher main().                                                      *)
(*                                                                         *)
(* Text is modelled as TLA+ strings and processed character by character,  *)
(* the way the Python string methods used by the program process it.       *)
(***************************************************************************)
EXTENDS Integers, Sequences, FiniteSets, TLC

(***************************************************************************)
(* Python values.  An optional string (None or a str) is a sequence of     *)
(* zero or one strings.                                                    *)
(***************************************************************************)
None == <<>>

Some(s) == <<s>>

\* Python truthiness of an optional string: None and "" are falsy.
Truthy(v) == v # None /\ v[1] # ""

\* Python's `a or b` on optional strings.
Or(a, b) == IF Truthy(a) THEN a ELSE b

(***************************************************************************)
(* str methods.                                                            *)
(***************************************************************************)
\* The characters str.strip() removes (ASCII whitespace).
IsSpace(c) == c \in {" ", "\t", "\n", "\r"}

RECURSIVE LStripSet(_, _)
LStripSet(s, cs) ==
  IF Len(s) > 0 /\ Head(s) \in cs THEN LStripSet(Tail(s), cs) ELSE s

RECURSIVE RStripSet(_, _)
RStripSet(s, cs) ==
  IF Len(s) > 0 /\ SubSeq(s, Len(s), Len(s)) \in cs
  THEN RStripSet(SubSeq(s, 1, Len(s) - 1), cs)
  ELSE s

\* s.strip(chars)
StripSet(s, cs) == RStripSet(LStripSet(s, cs), cs)

\* s.strip()
strip(s) == StripSet(s, {" ", "\t", "\n", "\r"})

\* s.startswith(p)
startswith(s, p) == Len(s) >= Len(p) /\ SubSeq(s, 1, Len(p)) = p

\* `sub in s` for strings
contains(s, sub) ==
  \E i \in 1..(Len(s) - Len(sub) + 1) : SubSeq(s, i, i + Len(sub) - 1) = sub

\* s[n:]
slice_from(s, n) == SubSeq(s, n + 1, Len(s))

\* The position of the first occurrence of the one-character string c in s
\* (0 when there is none).
RECURSIVE FindFrom(_, _, _)
FindFrom(s, c, i) ==
  IF i > Len(s) THEN 0
  ELSE IF SubSeq(s, i, i) = c THEN i
  ELSE FindFrom(s, c, i + 1)

UpperCase == "ABCDEFGHIJKLMNOPQRSTUVWXYZ"

LowerCase == "abcdefghijklmnopqrstuvwxyz"

LowerChar(c) ==
  LET i == FindFrom(UpperCase, c, 1)
  IN  IF i = 0 THEN c ELSE SubSeq(LowerCase, i, i)

\* s.lower()
RECURSIVE lower(_)
lower(s) == IF Len(s) = 0 THEN "" ELSE LowerChar(Head(s)) \o lower(Tail(s))

(***************************************************************************)
(* JSON values, as json.loads builds them.  Every value is a record        *)
(* [k, s, kids]: k is its Python type, s the text of a str, a number or a  *)
(* literal, kids the elements of a list or the (key, value) pairs of a     *)
(* dict in the order they were parsed.                                     *)
(***************************************************************************)
JStr(s) == [k |-> "str", s |-> s, kids |-> <<>>]

JNum(s) == [k |-> "num", s |-> s, kids |-> <<>>]

JBool(s) == [k |-> "bool", s |-> s, kids |-> <<>>]

JNull == [k |-> "null", s |-> "null", kids |-> <<>>]

JList(items) == [k |-> "list", s |-> "", kids |-> items]

JDict(pairs) == [k |-> "dict", s |-> "", kids |-> pairs]

\* The result of a scanning step: the value and the position after it.
Scanned(v, i) == [ok |-> TRUE, val |-> v, pos |-> i]

\* json.JSONDecodeError
DecodeError == [ok |-> FALSE, val |-> JNull, pos |-> 0]

\* s[i:i+1], 1-based: the character at i, or "" past the end.
Ch(s, i) == IF i >= 1 /\ i <= Len(s) THEN SubSeq(s, i, i) ELSE ""

\* s[i-1:j], 1-based and clamped to the end of s as a Python slice is.
Slice(s, i, j) == IF i > Len(s) THEN "" ELSE SubSeq(s, i, IF j > Len(s) THEN Len(s) ELSE j)

\* json.decoder.WHITESPACE.match(s, i).end()
RECURSIVE SkipWs(_, _)
SkipWs(s, i) == IF IsSpace(Ch(s, i)) THEN SkipWs(s, i + 1) ELSE i

IsDigit(c) == c # "" /\ FindFrom("0123456789", c, 1) # 0

RECURSIVE SkipDigits(_, _)
SkipDigits(s, i) == IF IsDigit(Ch(s, i)) THEN SkipDigits(s, i + 1) ELSE i

\* json.scanner.NUMBER_RE, (-?(?:0|[1-9]\d*))(\.\d+)?([eE][-+]?\d+)?,
\* matched at i: the position after the match, 0 when there is none.
MatchNumber(s, i) ==
  LET j == IF Ch(s, i) = "-" THEN i + 1 ELSE i
      intEnd == IF Ch(s, j) = "0" THEN j + 1
                ELSE IF IsDigit(Ch(s, j)) THEN SkipDigits(s, j)
                ELSE 0
      fracEnd == IF intEnd # 0 /\ Ch(s, intEnd) = "." /\ IsDigit(Ch(s, intEnd + 1))
                 THEN SkipDigits(s, intEnd + 1)
                 ELSE intEnd
      e == IF Ch(s, fracEnd) \in {"e", "E"}
           THEN (IF Ch(s, fracEnd + 1) \in {"+", "-"} THEN fracEnd + 2 ELSE fracEnd + 1)
           ELSE 0
  IN  IF fracEnd # 0 /\ e # 0 /\ IsDigit(Ch(s, e)) THEN SkipDigits(s, e) ELSE fracEnd

\* The character a backslash escape stands for ("" when the escape is not
\* one of \" \\ \/ \n \r \t \f; \b and \uXXXX have no TLA+ string
\* counterpart and do not occur in the modelled texts).
Unescape(c) ==
  CASE c = "\"" -> "\""
    [] c = "\\" -> "\\"
    [] c = "/" -> "/"
    [] c = "n" -> "\n"
    [] c = "r" -> "\r"
    [] c = "t" -> "\t"
    [] c = "f" -> "\f"
    [] OTHER -> ""

\* json.decoder.py_scanstring (strict): i is the position after the
\* opening quote, acc the characters read so far.
RECURSIVE ScanString(_, _, _)
ScanString(s, i, acc) ==
  LET c == Ch(s, i)
  IN  IF c = "" THEN DecodeError
      ELSE IF c = "\"" THEN Scanned(JStr(acc), i + 1)
      ELSE IF c = "\\"
        THEN IF Unescape(Ch(s, i + 1)) = "" THEN DecodeError
             ELSE ScanString(s, i + 2, acc \o Unescape(Ch(s, i + 1)))
      ELSE IF c \in {"\n", "\r", "\t", "\f"} THEN DecodeError
      ELSE ScanString(s, i + 1, acc \o c)

RECURSIVE ScanOnce(_, _)
RECURSIVE ScanMembers(_, _, _)
RECURSIVE ScanElems(_, _, _)

\* json.decoder.JSONObject's loop, after a member: sep is the position of
\* the character that follows it, "}" or ",".
MemberEnd(s, pairs, sep) ==
  LET nxt == SkipWs(s, sep + 1)
  IN  IF Ch(s, sep) = "}" THEN Scanned(JDict(pairs), sep + 1)
      ELSE IF Ch(s, sep) # "," THEN DecodeError
      ELSE IF Ch(s, nxt) # "\"" THEN DecodeError
      ELSE ScanMembers(s, nxt + 1, pairs)

\* ... after a member's value was scanned
MemberValue(s, acc, key, val) ==
  IF ~val.ok THEN DecodeError
  ELSE MemberEnd(s, Append(acc, [key |-> key, val |-> val.val]), SkipWs(s, val.pos))

\* ... after a member's key was scanned
MemberKey(s, acc, key) ==
  LET colon == SkipWs(s, key.pos)
  IN  IF ~key.ok THEN DecodeError
      ELSE IF Ch(s, colon) # ":" THEN DecodeError
      ELSE MemberValue(s, acc, key.val.s, ScanOnce(s, SkipWs(s, colon + 1)))

\* json.decoder.JSONObject's loop: i is the position after the opening
\* quote of a key, acc the pairs read so far.
ScanMembers(s, i, acc) == MemberKey(s, acc, ScanString(s, i, ""))

\* json.decoder.JSONArray's loop, after an element was scanned
ElemValue(s, acc, val) ==
  LET sep == SkipWs(s, val.pos)
  IN  IF ~val.ok THEN DecodeError
      ELSE IF Ch(s, sep) = "]" THEN Scanned(JList(Append(acc, val.val)), sep + 1)
      ELSE IF Ch(s, sep) # "," THEN DecodeError
      ELSE ScanElems(s, SkipWs(s, sep + 1), Append(acc, val.val))

\* json.decoder.JSONArray's loop: i is the position of the next element.
ScanElems(s, i, acc) == ElemValue(s, acc, ScanOnce(s, i))

\* json.scanner.py_make_scanner's _scan_once: the value that starts at i.
ScanOnce(s, i) ==
  LET c == Ch(s, i)
      num == MatchNumber(s, i)
      inner == SkipWs(s, i + 1)
  IN  IF c = "" THEN DecodeError
      ELSE IF c = "\"" THEN ScanString(s, i + 1, "")
      ELSE IF c = "{"
        THEN IF Ch(s, inner) = "}" THEN Scanned(JDict(<<>>), inner + 1)
             ELSE IF Ch(s, inner) # "\"" THEN DecodeError
             ELSE ScanMembers(s, inner + 1, <<>>)
      ELSE IF c = "["
        THEN IF Ch(s, inner) = "]" THEN Scanned(JList(<<>>), inner + 1)
             ELSE ScanElems(s, inner, <<>>)
      ELSE IF Slice(s, i, i + 3) = "null" THEN Scanned(JNull, i + 4)
      ELSE IF Slice(s, i, i + 3) = "true" THEN Scanned(JBool("true"), i + 4)
      ELSE IF Slice(s, i, i + 4) = "false" THEN Scanned(JBool("false"), i + 5)
      ELSE IF num # 0 THEN Scanned(JNum(SubSeq(s, i, num - 1)), num)
      ELSE IF Slice(s, i, i + 2) = "NaN" THEN Scanned(JNum("NaN"), i + 3)
      ELSE IF Slice(s, i, i + 7) = "Infinity" THEN Scanned(JNum("Infinity"), i + 8)
      ELSE IF Slice(s, i, i + 8) = "-Infinity" THEN Scanned(JNum("-Infinity"), i + 9)
      ELSE DecodeError

\* JSONDecoder.decode: the scanned value, when only whitespace follows it.
WholeText(s, r) ==
  IF r.ok /\ SkipWs(s, r.pos) = Len(s) + 1 THEN r ELSE DecodeError

\* json.loads(s): one value with whitespace around it and nothing else;
\* ok is FALSE where json.loads raises JSONDecodeError.
json_loads(s) == WholeText(s, ScanOnce(s, SkipWs(s, 1)))

(***************************************************************************)
(* Reading text line by line: `for line in f` over the config file and     *)
(* `async for line in resp.content` over a response body both hand out the *)
(* text up to and including the next "\n", and what is left at the end.    *)
(***************************************************************************)
FirstLine(text) ==
  LET nl == FindFrom(text, "\n", 1)
  IN  IF nl = 0 THEN text ELSE SubSeq(text, 1, nl)

AfterFirstLine(text) == slice_from(text, Len(FirstLine(text)))

(***************************************************************************)
(* get_config                                                              *)
(***************************************************************************)
DefaultModel == "zai-glm-4.7"

BaseUrl == "https://api.cerebras.ai/v1"

\* line.split("=", 1) of a line that holds an "=": the text before the
\* first "=" and the text after it.
SplitKey(line) == SubSeq(line, 1, FindFrom(line, "=", 1) - 1)

SplitValue(line) == slice_from(line, FindFrom(line, "=", 1))

\* ConfigLine with line 39's `and not config["api_key"]` left out: a key in
\* the file replaces the environment's.
ConfigLineOverwritesKey(config, raw) ==
  LET line == strip(raw)
      key == lower(strip(SplitKey(line)))
      value == StripSet(strip(SplitValue(line)), {"\"", "'"})
  IN  IF contains(line, "=") /\ ~startswith(line, "#")
      THEN IF key = "cerebras_api_key"
             THEN [config EXCEPT !.api_key = Some(value)]
           ELSE IF key = "cerebras_model"
             THEN [config EXCEPT !.model = Some(value)]
           ELSE config
      ELSE config

\* One pass of the loop over the config file's lines (lines 33-42).
ConfigLine(config, raw) ==
  LET line == strip(raw)
      key == lower(strip(SplitKey(line)))
      value == StripSet(strip(SplitValue(line)), {"\"", "'"})
  IN  IF contains(line, "=") /\ ~startswith(line, "#")
      THEN IF key = "cerebras_api_key" /\ ~Truthy(config.api_key)
             THEN [config EXCEPT !.api_key = Some(value)]
           ELSE IF key = "cerebras_model"
             THEN [config EXCEPT !.model = Some(value)]
           ELSE config
      ELSE config

RECURSIVE ConfigLines(_, _)
ConfigLines(config, text) ==
  IF text = "" THEN config
  ELSE ConfigLines(ConfigLine(config, FirstLine(text)), AfterFirstLine(text))

\* get_config(): e is the process environment (None for an unset
\* variable), f the config file's text (None when the file does not exist).
get_config(e, f) ==
  LET config == [api_key |-> e.CEREBRAS_API_KEY,
                 model |-> IF e.CEREBRAS_MODEL = None THEN Some(DefaultModel)
                           ELSE e.CEREBRAS_MODEL,
                 base_url |-> BaseUrl]
  IN  IF f # None THEN ConfigLines(config, f[1]) ELSE config

(***************************************************************************)
(* CerebrasClient.__init__: the attributes it sets, and whether it raises  *)
(* ValueError.                                                             *)
(***************************************************************************)
NewClient(api_key, model, e, f) ==
  LET config == get_config(e, f)
  IN  [api_key |-> Or(api_key, config.api_key),
       model |-> Or(model, config.model),
       base_url |-> config.base_url]

\* InitRaises with line 64's test written `is None`: an empty key passes.
InitRaisesOnlyOnNone(c) == c.api_key = None

InitRaises(c) == ~Truthy(c.api_key)

ConfigErrorMessage ==
  "CEREBRAS_API_KEY not set. Export it or add to ~/.config/cerebras/config"

(***************************************************************************)
(* Python's subscript, .get and `in` on the values json.loads returns.  An *)
(* evaluation ends in a value or in a raised exception: exc is "" or the   *)
(* exception's type.                                                       *)
(***************************************************************************)
Value(v) == [exc |-> "", val |-> v]

Raise(e) == [exc |-> e, val |-> JNull]

\* Whether the dict d has the key.
HasKey(d, key) == \E i \in 1..Len(d.kids) : d.kids[i].key = key

\* The value a dict holds for a key it has: a repeated key keeps the
\* value parsed last.
Lookup(d, key) ==
  LET last == CHOOSE i \in 1..Len(d.kids) :
                /\ d.kids[i].key = key
                /\ \A j \in (i + 1)..Len(d.kids) : d.kids[j].key # key
  IN  d.kids[last].val

\* x[key] for a str key
GetItem(x, key) ==
  IF x.k = "dict"
  THEN IF HasKey(x, key) THEN Value(Lookup(x, key)) ELSE Raise("KeyError")
  ELSE Raise("TypeError")

\* x[0]
GetItem0(x) ==
  CASE x.k = "list" -> IF Len(x.kids) > 0 THEN Value(x.kids[1]) ELSE Raise("IndexError")
    [] x.k = "str" -> IF Len(x.s) > 0 THEN Value(JStr(Head(x.s))) ELSE Raise("IndexError")
    [] x.k = "dict" -> Raise("KeyError")
    [] OTHER -> Raise("TypeError")

\* x.get(key, {})
GetOrEmpty(x, key) ==
  IF x.k = "dict"
  THEN Value(IF HasKey(x, key) THEN Lookup(x, key) ELSE JDict(<<>>))
  ELSE Raise("AttributeError")

\* key in x; val is a bool
In(key, x) ==
  CASE x.k = "dict" -> Value(JBool(IF HasKey(x, key) THEN "true" ELSE "false"))
    [] x.k = "list" -> Value(JBool(IF \E i \in 1..Len(x.kids) : x.kids[i] = JStr(key)
                                   THEN "true" ELSE "false"))
    [] x.k = "str" -> Value(JBool(IF contains(x.s, key) THEN "true" ELSE "false"))
    [] OTHER -> Raise("TypeError")

(***************************************************************************)
(* CerebrasClient.stream, lines 144-152: what one line of the body does.   *)
(* out is "yield" (val is the fragment), "raise" (exc is the exception     *)
(* that leaves the generator) or "next" (the loop goes on to the next      *)
(* line).                                                                  *)
(***************************************************************************)
\* bytes.decode(): the modelled bodies hold ASCII bytes only, which UTF-8
\* decodes to the characters of the same codes.
decode(bytes) == bytes

Outcome(o, v, e) == [out |-> o, val |-> v, exc |-> e]

GoOn == Outcome("next", JNull, "")

\* FrameOutcome with line 150 yielding the delta instead of its content.
FrameOutcomeYieldsDelta(data) ==
  LET choices == GetItem(data, "choices")
      first == GetItem0(choices.val)
      delta == GetOrEmpty(first.val, "delta")
      has == In("content", delta.val)
  IN  IF choices.exc # "" THEN Outcome("raise", JNull, choices.exc)
      ELSE IF first.exc # "" THEN Outcome("raise", JNull, first.exc)
      ELSE IF delta.exc # "" THEN Outcome("raise", JNull, delta.exc)
      ELSE IF has.exc # "" THEN Outcome("raise", JNull, has.exc)
      ELSE IF has.val = JBool("false") THEN GoOn
      ELSE Outcome("yield", delta.val, "")

\* lines 148-150, on the parsed frame
FrameOutcome(data) ==
  LET choices == GetItem(data, "choices")
      first == GetItem0(choices.val)
      delta == GetOrEmpty(first.val, "delta")
      has == In("content", delta.val)
      content == GetItem(delta.val, "content")
  IN  IF choices.exc # "" THEN Outcome("raise", JNull, choices.exc)
      ELSE IF first.exc # "" THEN Outcome("raise", JNull, first.exc)
      ELSE IF delta.exc # "" THEN Outcome("raise", JNull, delta.exc)
      ELSE IF has.exc # "" THEN Outcome("raise", JNull, has.exc)
      ELSE IF has.val = JBool("false") THEN GoOn
      ELSE IF content.exc # "" THEN Outcome("raise", JNull, content.exc)
      ELSE Outcome("yield", content.val, "")

\* line 145's test
IsDataLine(line) == startswith(line, "data: ") /\ line # "data: [DONE]"

\* lines 146-152, on the payload's parse
PayloadOutcome(parsed) == IF ~parsed.ok THEN GoOn ELSE FrameOutcome(parsed.val)

\* lines 144-152, on the raw line
LineOutcome(raw) ==
  LET line == strip(decode(raw))
  IN  IF ~IsDataLine(line) THEN GoOn
      ELSE PayloadOutcome(json_loads(slice_from(line, 6)))

(***************************************************************************)
(* Formatting.                                                             *)
(***************************************************************************)
\* str(n) of a natural number, as an f-string formats resp.status.
RECURSIVE ToStr(_)
ToStr(n) ==
  LET d == SubSeq("0123456789", (n % 10) + 1, (n % 10) + 1)
  IN  IF n < 10 THEN d ELSE ToStr(n \div 10) \o d

\* s.replace(old, new), which is what str.format does to a template whose
\* only field is `old`.
RECURSIVE Replace(_, _, _)
Replace(s, old, new) ==
  IF Len(s) = 0 THEN ""
  ELSE IF startswith(s, old) THEN new \o Replace(slice_from(s, Len(old)), old, new)
  ELSE Head(s) \o Replace(Tail(s), old, new)

(***************************************************************************)
(* Requests.                                                               *)
(***************************************************************************)
\* max_tokens: int = 4096
DefaultMaxTokens == 4096

\* temperature: float = 0.7, in tenths
DefaultTemperature == 7

\* temperature=0.3 of code() and of the preset command, in tenths
CodeTemperature == 3

Message(role, content) == [role |-> role, content |-> content]

\* CompleteMessages with the system message appended after the user's.
CompleteMessagesUserFirst(prompt, system) ==
  <<Message("user", prompt)>>
    \o (IF Truthy(system) THEN <<Message("system", system[1])>> ELSE <<>>)

\* complete, lines 82-85
CompleteMessages(prompt, system) ==
  (IF Truthy(system) THEN <<Message("system", system[1])>> ELSE <<>>)
    \o <<Message("user", prompt)>>

\* stream, lines 122-125
StreamMessages(prompt, system) ==
  (IF Truthy(system) THEN <<Message("system", system[1])>> ELSE <<>>)
    \o <<Message("user", prompt)>>

\* The headers property.
Headers(c) ==
  [Authorization |-> "Bearer " \o c.api_key[1], ContentType |-> "application/json"]

\* The POST of chat (stream key absent) and of stream (stream: True), sent
\* over session number s.  state is "sent" until the response arrives,
\* "open" while the response is held, "released" afterwards.
Post(c, s, messages, max_tokens, temperature, streaming) ==
  [session |-> s,
   url |-> c.base_url \o "/chat/completions",
   headers |-> Headers(c),
   json |-> [model |-> c.model[1], messages |-> messages,
             max_tokens |-> max_tokens, temperature |-> temperature,
             stream |-> streaming],
   state |-> "sent"]

\* The arguments of a call of complete, stream, chat or code.
Args(name, prompt, system, messages, max_tokens, temperature, context, language) ==
  [name |-> name, prompt |-> prompt, system |-> system, messages |-> messages,
   max_tokens |-> max_tokens, temperature |-> temperature,
   context |-> context, language |-> language]

\* client.complete(prompt, system=..., temperature=...)
CompleteCall(prompt, system, max_tokens, temperature) ==
  Args("complete", prompt, system, <<>>, max_tokens, temperature, None, "")

\* client.stream(prompt, system=...)
StreamCall(prompt, system) ==
  Args("stream", prompt, system, <<>>, DefaultMaxTokens, DefaultTemperature, None, "")

\* self.chat(messages, max_tokens, temperature)
ChatCall(messages, max_tokens, temperature) ==
  Args("chat", "", None, messages, max_tokens, temperature, None, "")

\* client.code(task, context=..., language=...)
CodeCall(task, context, language) ==
  Args("code", task, None, <<>>, DefaultMaxTokens, DefaultTemperature, context, language)

NoCall == Args("", "", None, <<>>, 0, 0, None, "")

\* The code fence of the prompts of code() and of the preset command, three
\* backquotes in the source; a TLA+ string cannot hold a backquote, so the
\* fence is written with three apostrophes.
Fence == "'''"

\* code(), lines 161-169: the complete call it makes.
CodeSystem(language) ==
  "You are an expert " \o language \o " programmer. \n"
    \o "Output only code, no explanations unless asked.\n"
    \o "Follow best practices and include error handling."

CodePrompt(task, context) ==
  IF Truthy(context)
  THEN "Context:\n" \o Fence \o "\n" \o context[1] \o "\n" \o Fence \o "\n\nTask: " \o task
  ELSE task

CodeToComplete(a) ==
  CompleteCall(CodePrompt(a.prompt, a.context), Some(CodeSystem(a.language)),
               DefaultMaxTokens, CodeTemperature)

\* chat(), lines 107-112, on the response: the returned value or the
\* exception raised.
NoExc == [type |-> "", msg |-> ""]

\* ApiError with the response body left out of the message.
ApiErrorWithoutBody(status, text) ==
  [type |-> "Exception", msg |-> "Cerebras API error " \o ToStr(status)]

ApiError(status, text) ==
  [type |-> "Exception", msg |-> "Cerebras API error " \o ToStr(status) \o ": " \o text]

Raised(e) == [out |-> "raise", val |-> JNull, exc |-> e]

\* line 112, on the parsed body
MessageContent(data) ==
  LET choices == GetItem(data, "choices")
      first == GetItem0(choices.val)
      message == GetItem(first.val, "message")
      content == GetItem(message.val, "content")
      failed(e) == Raised([type |-> e, msg |-> ""])
  IN  IF choices.exc # "" THEN failed(choices.exc)
      ELSE IF first.exc # "" THEN failed(first.exc)
      ELSE IF message.exc # "" THEN failed(message.exc)
      ELSE IF content.exc # "" THEN failed(content.exc)
      ELSE [out |-> "return", val |-> content.val, exc |-> NoExc]

\* lines 111-112, on the body's parse
BodyOutcome(parsed) ==
  IF ~parsed.ok THEN Raised([type |-> "JSONDecodeError", msg |-> ""])
  ELSE MessageContent(parsed.val)

\* lines 107-112
ChatOutcome(r) ==
  IF r.status # 200 THEN Raised(ApiError(r.status, r.text))
  ELSE BodyOutcome(json_loads(r.text))

(***************************************************************************)
(* main(), lines 221-248: the client call a parsed command line makes.     *)
(***************************************************************************)
PRESETS(name) ==
  CASE name = "refactor" -> "Refactor this code to be cleaner and more maintainable:"
    [] name = "test" -> "Write comprehensive pytest tests for this code:"
    [] name = "docs" -> "Write docstrings and comments for this code:"
    [] name = "types" -> "Add type hints to this Python code:"
    [] name = "translate" -> "Translate this code to {target_lang}:"
    [] name = "explain" -> "Explain what this code does step by step:"

PresetPrompt(a) ==
  LET preset_prompt == PRESETS(a.text)
      filled == IF contains(preset_prompt, "{target_lang}")
                THEN Replace(preset_prompt, "{target_lang}",
                             Or(a.target_lang, Some("TypeScript"))[1])
                ELSE preset_prompt
  IN  filled \o "\n\n" \o Fence \o "\n" \o a.context[1] \o "\n" \o Fence

ChatPrompt(a) ==
  IF Truthy(a.context)
  THEN "Context:\n" \o a.context[1] \o "\n\n" \o a.text
  ELSE a.text

MainCall(a) ==
  CASE a.command = "complete" /\ a.stream -> StreamCall(a.text, a.system)
    [] a.command = "complete" /\ ~a.stream ->
         CompleteCall(a.text, a.system, DefaultMaxTokens, DefaultTemperature)
    [] a.command = "code" -> CodeCall(a.text, a.context, a.language)
    [] a.command = "chat" ->
         CompleteCall(ChatPrompt(a), a.system, DefaultMaxTokens, DefaultTemperature)
    [] a.command = "preset" ->
         CompleteCall(PresetPrompt(a), None, DefaultMaxTokens, CodeTemperature)

(***************************************************************************)
(* The inputs of a run: the environment, the config file, the command      *)
(* line, the constructor's arguments, and what the server answers.  Each   *)
(* catalogued config line and body line carries, beside its text, what it  *)
(* is by construction; the program reads the text only.                    *)
(***************************************************************************)
\* The number of lines of a config file.
MaxFileLines == 2

\* The number of lines of a streamed body.
MaxLines == 3

\* The number of calls made on one client by a program that uses the class.
MaxCalls == 2

EnvKeys == {None, Some(""), Some("sk-env")}

EnvModels == {None, Some(""), Some("llama3.1-8b")}

Environment(k, m) == [CEREBRAS_API_KEY |-> k, CEREBRAS_MODEL |-> m]

ConfigEntry(raw, key, value) == [raw |-> raw, key |-> key, value |-> value]

FileLines ==
  << ConfigEntry("CEREBRAS_API_KEY=\"sk-file\"\n", "api_key", "sk-file"),
     ConfigEntry("  cerebras_api_key = sk-two  \n", "api_key", "sk-two"),
     ConfigEntry("cerebras_api_key=\n", "api_key", ""),
     ConfigEntry("cerebras_model=llama-3.3-70b\n", "model", "llama-3.3-70b"),
     ConfigEntry("Cerebras_Model = 'qwen-3-32b'\n", "model", "qwen-3-32b"),
     ConfigEntry("# cerebras_api_key=sk-old\n", "", "") >>

RECURSIVE Concat(_)
Concat(entries) ==
  IF entries = <<>> THEN "" ELSE Head(entries).raw \o Concat(Tail(entries))

\* The config file made of the catalogued lines numbered by idx.
FileOf(idx) ==
  LET entries == [i \in 1..Len(idx) |-> FileLines[idx[i]]]
  IN  [exists |-> TRUE, text |-> Concat(entries), entries |-> entries]

NoFile == [exists |-> FALSE, text |-> "", entries |-> <<>>]

Files(n) ==
  {NoFile} \cup
    UNION {{FileOf(idx) : idx \in [1..k -> 1..Len(FileLines)]} : k \in 0..n}

\* What os.path.exists and open give get_config.
FileText(f) == IF f.exists THEN Some(f.text) ELSE None

BodyLine(raw, kind, content) == [raw |-> raw, kind |-> kind, content |-> content]

\* kind: "content" a frame that carries choices[0].delta.content; "done" the
\* terminal line; "other" a line that does not start with `data: `;
\* "badjson" a data line whose payload is not JSON; "nocontent" a frame with
\* choices[0] and no delta.content; "noshape" a frame whose payload is JSON
\* without choices[0]; "message" a whole body that is a completion.
SseLines ==
  << BodyLine("data: {\"choices\":[{\"delta\":{\"content\":\"Hel\"}}]}\n", "content", "Hel"),
     BodyLine("data: {\"id\": \"c1\", \"choices\": [{\"index\": 0, \"delta\": {\"content\": \"lo\"}}]}\r\n",
             "content", "lo"),
     BodyLine("data: [DONE]\n", "done", ""),
     BodyLine("\n", "other", ""),
     BodyLine("data:{\"choices\":[{\"delta\":{\"content\":\"zz\"}}]}\n", "other", ""),
     BodyLine("data: {\"choices\":[{\"delta\":{\"content\":\"Hel\n", "badjson", ""),
     BodyLine("data: {\"choices\":[{\"delta\":{\"role\":\"assistant\"},\"finish_reason\":null}]}\n",
             "nocontent", ""),
     BodyLine("data: {\"id\":\"c1\"}\n", "noshape", ""),
     BodyLine("data: {\"choices\":[]}\n", "noshape", ""),
     BodyLine("data: 5\n", "noshape", "") >>

Response(status, text, script) == [status |-> status, text |-> text, script |-> script]

\* The 200 response whose body is made of the catalogued lines numbered by idx.
SseResponse(idx) ==
  LET script == [i \in 1..Len(idx) |-> SseLines[idx[i]]]
  IN  Response(200, Concat(script), script)

SseResponses(n) ==
  UNION {{SseResponse(idx) : idx \in [1..k -> 1..Len(SseLines)]} : k \in 0..n}

\* What the server may answer a call made from the command line or by a
\* program that uses the class: a completion, a JSON body of another shape,
\* two error statuses, and two streamed bodies.
Completion(text, content) == Response(200, text, <<BodyLine(text, "message", content)>>)

Responses ==
  { Completion("{\"choices\":[{\"message\":{\"role\":\"assistant\",\"content\":\"Hello\"}}]}",
               "Hello"),
    Response(200, "{\"error\":\"overloaded\"}", <<>>),
    Response(401, "{\"message\":\"Wrong API Key\"}", <<>>),
    Response(500, "Internal Server Error", <<>>),
    SseResponse(<<1, 4, 2, 4, 3, 4>>),
    SseResponse(<<1, 8, 2>>) }

NoResponse == Response(0, "", <<>>)

\* A parsed command line (argparse's namespace); text is the positional
\* argument: the prompt, the task, the message or the preset's name.
Argv(command, model, text, system, streaming, context, language, target_lang) ==
  [command |-> command, model |-> model, text |-> text, system |-> system,
   stream |-> streaming, context |-> context, language |-> language,
   target_lang |-> target_lang]

Argvs ==
  {Argv("complete", m, "Hi", s, b, None, "", None) :
     m \in {None, Some("gpt-oss-120b")}, s \in {None, Some(""), Some("Be terse")},
     b \in BOOLEAN}
  \cup {Argv("code", None, "reverse a list", None, FALSE, c, l, None) :
     c \in {None, Some("xs = [1, 2]")}, l \in {"python", "Go"}}
  \cup {Argv("chat", None, "Why?", s, FALSE, c, "", None) :
     s \in {None, Some("Be terse")}, c \in {None, Some("x = 1")}}
  \cup {Argv("preset", None, n, None, FALSE, Some("x = 1"), "", tl) :
     n \in {"translate", "test"}, tl \in {None, Some("Rust")}}

\* The calls a program that uses the class makes.
ApiCalls ==
  {CompleteCall("Hi", s, DefaultMaxTokens, DefaultTemperature) :
     s \in {None, Some(""), Some("Be terse")}}
  \cup {CompleteCall("Hi", None, 16, 0)}
  \cup {StreamCall("Hi", s) : s \in {None, Some(""), Some("Be terse")}}
  \cup {CodeCall("reverse a list", None, "Go")}

(***************************************************************************)
(* The state of a run.                                                     *)
(*   env, file, argv, ctor  the inputs: environment, config file, parsed   *)
(*                          command line, constructor arguments            *)
(*   server                 the responses the server will give, in order   *)
(*   stack                  the active calls, outermost first ("main" for  *)
(*                          a command-line run)                            *)
(*   pc                     where the innermost call stands                *)
(*   client                 the constructed CerebrasClient's attributes    *)
(*   op                     the arguments of the innermost call            *)
(*   trace                  every call of complete/stream/chat/code made   *)
(*   sessions               each ClientSession opened: "open" or "closed"  *)
(*   requests               each POST issued                               *)
(*   resp, rest, nread      the response held, its unread body, and the    *)
(*                          number of its lines read                       *)
(*   emitted                the fragments the running stream() has yielded *)
(*   ret, exc               the value returned / the exception raised by   *)
(*                          the call that ended last                       *)
(*   stdout, stderr         what was printed: the objects given to print   *)
(*                          with their end=, and the error stream's lines  *)
(*   exit_status            the process's exit status, None while it runs  *)
(***************************************************************************)
VARIABLES env, file, argv, ctor, server, stack, pc, client, op, trace,
          sessions, requests, resp, rest, nread, emitted, ret, exc,
          stdout, stderr, exit_status

vars == <<env, file, argv, ctor, server, stack, pc, client, op, trace,
          sessions, requests, resp, rest, nread, emitted, ret, exc,
          stdout, stderr, exit_status>>

inputs == <<env, file, argv>>

http == <<sessions, requests, resp, rest, nread>>

output == <<stdout, stderr, exit_status>>

NoClient == [api_key |-> None, model |-> None, base_url |-> ""]

NoArgv == Argv("", None, "", None, FALSE, None, "", None)

NoCtor == [api_key |-> None, model |-> None]

Top == IF stack = <<>> THEN "" ELSE stack[Len(stack)]

Pop == SubSeq(stack, 1, Len(stack) - 1)

\* Leaving the two `async with` blocks: the response and the session of
\* the call in progress are released.
ReleasedRequests == [requests EXCEPT ![Len(requests)].state = "released"]

\* ClosedSessions with the session left open.
SessionsLeftOpen == sessions

ClosedSessions == [sessions EXCEPT ![Len(sessions)] = "closed"]

\* Everything but the inputs, before anything ran.
Fresh ==
  /\ client = NoClient
  /\ op = NoCall
  /\ trace = <<>>
  /\ sessions = <<>>
  /\ requests = <<>>
  /\ resp = NoResponse
  /\ rest = ""
  /\ nread = 0
  /\ emitted = <<>>
  /\ ret = JNull
  /\ exc = NoExc
  /\ stdout = <<>>
  /\ stderr = <<>>
  /\ exit_status = None

(***************************************************************************)
(* main(), lines 213-219, and CerebrasClient.__init__                      *)
(***************************************************************************)
\* line 216: CerebrasClient(model=args.model)
MainStart ==
  /\ pc = "start"
  /\ stack = <<"main">>
  /\ ctor' = [api_key |-> None, model |-> argv.model]
  /\ pc' = "construct"
  /\ UNCHANGED <<inputs, server, stack, client, op, trace, http, emitted, ret, exc, output>>

\* lines 58-65
Construct ==
  /\ pc = "construct"
  /\ LET c == NewClient(ctor.api_key, ctor.model, env, FileText(file))
     IN  IF InitRaises(c)
         THEN /\ pc' = "ctor_raise"
              /\ exc' = [type |-> "ValueError", msg |-> ConfigErrorMessage]
              /\ client' = client
         ELSE /\ pc' = "idle"
              /\ exc' = exc
              /\ client' = c
  /\ UNCHANGED <<inputs, ctor, server, stack, op, trace, http, emitted, ret, output>>

\* lines 217-219: the ValueError of the constructor is caught
MainExcept ==
  /\ pc = "ctor_raise"
  /\ stack = <<"main">>
  /\ stderr' = Append(stderr, "Error: " \o exc.msg)
  /\ exit_status' = <<1>>
  /\ pc' = "exited"
  /\ stack' = <<>>
  /\ UNCHANGED <<inputs, ctor, server, client, op, trace, http, emitted, ret, exc, stdout>>

\* lines 221-248: the command's one client call
Dispatch ==
  /\ pc = "idle"
  /\ stack = <<"main">>
  /\ op' = MainCall(argv)
  /\ stack' = Append(stack, MainCall(argv).name)
  /\ trace' = Append(trace, MainCall(argv))
  /\ pc' = "call"
  /\ UNCHANGED <<inputs, ctor, server, client, http, emitted, ret, exc, output>>

\* A program that uses the class calls its client, once the call before
\* has returned or raised.
ApiCall ==
  /\ pc \in {"idle", "return", "raise"}
  /\ stack = <<>>
  /\ server # <<>>
  /\ \E c \in ApiCalls :
       /\ op' = c
       /\ stack' = <<c.name>>
       /\ trace' = Append(trace, c)
  /\ pc' = "call"
  /\ ret' = JNull
  /\ exc' = NoExc
  /\ emitted' = <<>>
  /\ UNCHANGED <<inputs, ctor, server, client, http, output>>

(***************************************************************************)
(* code, complete, chat                                                    *)
(***************************************************************************)
\* lines 161-169
Code ==
  /\ pc = "call"
  /\ Top = "code"
  /\ op' = CodeToComplete(op)
  /\ stack' = Append(stack, "complete")
  /\ trace' = Append(trace, CodeToComplete(op))
  /\ UNCHANGED <<inputs, ctor, server, pc, client, http, emitted, ret, exc, output>>

\* lines 82-87
Complete ==
  /\ pc = "call"
  /\ Top = "complete"
  /\ LET c == ChatCall(CompleteMessages(op.prompt, op.system), op.max_tokens,
                       op.temperature)
     IN  /\ op' = c
         /\ trace' = Append(trace, c)
  /\ stack' = Append(stack, "chat")
  /\ UNCHANGED <<inputs, ctor, server, pc, client, http, emitted, ret, exc, output>>

\* lines 96-106: the session is opened and the POST issued
ChatPost ==
  /\ pc = "call"
  /\ Top = "chat"
  /\ sessions' = Append(sessions, "open")
  /\ requests' = Append(requests,
                        Post(client, Len(sessions) + 1, op.messages, op.max_tokens,
                             op.temperature, "absent"))
  /\ pc' = "wait"
  /\ UNCHANGED <<inputs, ctor, server, stack, client, op, trace, resp, rest, nread,
                 emitted, ret, exc, output>>

\* lines 107-112: the response arrives; chat returns or raises, and both
\* `async with` blocks are left
ChatResponse ==
  /\ pc = "wait"
  /\ Top = "chat"
  /\ server # <<>>
  /\ LET o == ChatOutcome(Head(server))
     IN  IF o.out = "raise"
         THEN pc' = "raise" /\ exc' = o.exc /\ ret' = ret
         ELSE pc' = "return" /\ ret' = o.val /\ exc' = exc
  /\ resp' = Head(server)
  /\ server' = Tail(server)
  /\ requests' = ReleasedRequests
  /\ sessions' = ClosedSessions
  /\ stack' = Pop
  /\ UNCHANGED <<inputs, ctor, client, op, trace, rest, nread, emitted, output>>

\* `return await ...` of complete and of code: the callee's result is the
\* caller's
Return ==
  /\ pc = "return"
  /\ Top \in {"complete", "code"}
  /\ stack' = Pop
  /\ UNCHANGED <<inputs, ctor, server, pc, client, op, trace, http, emitted, ret, exc,
                 output>>

\* an exception passes through complete and code
Unwind ==
  /\ pc = "raise"
  /\ Top \in {"complete", "code"}
  /\ stack' = Pop
  /\ UNCHANGED <<inputs, ctor, server, pc, client, op, trace, http, emitted, ret, exc,
                 output>>

(***************************************************************************)
(* stream                                                                  *)
(***************************************************************************)
\* lines 122-138: the messages are built, the session opened, the POST issued
StreamPost ==
  /\ pc = "call"
  /\ Top = "stream"
  /\ sessions' = Append(sessions, "open")
  /\ requests' = Append(requests,
                        Post(client, Len(sessions) + 1,
                             StreamMessages(op.prompt, op.system), op.max_tokens,
                             op.temperature, "true"))
  /\ emitted' = <<>>
  /\ pc' = "wait"
  /\ UNCHANGED <<inputs, ctor, server, stack, client, op, trace, resp, rest, nread,
                 ret, exc, output>>

\* lines 139-141: the response arrives
StreamResponse ==
  /\ pc = "wait"
  /\ Top = "stream"
  /\ server # <<>>
  /\ resp' = Head(server)
  /\ server' = Tail(server)
  /\ nread' = 0
  /\ IF Head(server).status # 200
     THEN /\ pc' = "raise"
          /\ exc' = ApiError(Head(server).status, Head(server).text)
          /\ requests' = ReleasedRequests
          /\ sessions' = ClosedSessions
          /\ stack' = Pop
          /\ rest' = ""
     ELSE /\ pc' = "read"
          /\ exc' = exc
          /\ requests' = [requests EXCEPT ![Len(requests)].state = "open"]
          /\ sessions' = sessions
          /\ stack' = stack
          /\ rest' = Head(server).text
  /\ UNCHANGED <<inputs, ctor, client, op, trace, emitted, ret, output>>

\* lines 143-152: one line of the body; a fragment yielded to main is
\* printed there (line 224)
StreamLine ==
  /\ pc = "read"
  /\ rest # ""
  /\ rest' = AfterFirstLine(rest)
  /\ nread' = nread + 1
  /\ LET o == LineOutcome(FirstLine(rest))
     IN  CASE o.out = "yield" ->
                /\ emitted' = Append(emitted, o.val)
                /\ stdout' = IF stack[1] = "main"
                             THEN Append(stdout, [obj |-> o.val, end |-> ""])
                             ELSE stdout
                /\ UNCHANGED <<pc, exc, requests, sessions, stack>>
           [] o.out = "raise" ->
                /\ pc' = "raise"
                /\ exc' = [type |-> o.exc, msg |-> ""]
                /\ requests' = ReleasedRequests
                /\ sessions' = ClosedSessions
                /\ stack' = Pop
                /\ UNCHANGED <<emitted, stdout>>
           [] o.out = "next" ->
                UNCHANGED <<pc, exc, requests, sessions, stack, emitted, stdout>>
  /\ UNCHANGED <<inputs, ctor, server, client, op, trace, resp, ret, stderr, exit_status>>

\* the body is exhausted: the loop and both `async with` blocks are left
StreamEnd ==
  /\ pc = "read"
  /\ rest = ""
  /\ pc' = "return"
  /\ ret' = JNull
  /\ requests' = ReleasedRequests
  /\ sessions' = ClosedSessions
  /\ stack' = Pop
  /\ UNCHANGED <<inputs, ctor, server, client, op, trace, resp, rest, nread, emitted, exc,
                 output>>

(***************************************************************************)
(* main(), the end of a command                                            *)
(***************************************************************************)
\* lines 225, 228, 232, 239, 248: the result (after a stream, the empty
\* line) is printed and the process ends
MainPrint ==
  /\ pc = "return"
  /\ stack = <<"main">>
  /\ stdout' = Append(stdout,
                      IF argv.command = "complete" /\ argv.stream
                      THEN [obj |-> JStr(""), end |-> "\n"]
                      ELSE [obj |-> ret, end |-> "\n"])
  /\ exit_status' = <<0>>
  /\ pc' = "exited"
  /\ stack' = <<>>
  /\ UNCHANGED <<inputs, ctor, server, client, op, trace, http, emitted, ret, exc, stderr>>

\* an exception of the client call is not caught: the traceback goes to the
\* error stream and the interpreter exits with status 1
MainCrash ==
  /\ pc = "raise"
  /\ stack = <<"main">>
  /\ stderr' = Append(stderr, exc.type \o ": " \o exc.msg)
  /\ exit_status' = <<1>>
  /\ pc' = "exited"
  /\ stack' = <<>>
  /\ UNCHANGED <<inputs, ctor, server, client, op, trace, http, emitted, ret, exc, stdout>>

(***************************************************************************)
(* Specifications.                                                         *)
(***************************************************************************)
\* A command-line run: asyncio.run(main()).
Init ==
  /\ env \in {Environment(k, m) : k \in EnvKeys, m \in {None, Some("llama3.1-8b")}}
  /\ file \in {NoFile, FileOf(<<1>>), FileOf(<<3>>), FileOf(<<4>>)}
  /\ argv \in Argvs
  /\ ctor = NoCtor
  /\ server \in {<<r>> : r \in Responses}
  /\ stack = <<"main">>
  /\ pc = "start"
  /\ Fresh

Next ==
  \/ MainStart
  \/ Construct
  \/ MainExcept
  \/ Dispatch
  \/ Code
  \/ Complete
  \/ ChatPost
  \/ ChatResponse
  \/ Return
  \/ Unwind
  \/ StreamPost
  \/ StreamResponse
  \/ StreamLine
  \/ StreamEnd
  \/ MainPrint
  \/ MainCrash

Spec == Init /\ [][Next]_vars

\* The construction of a client by a program that uses the class, over
\* every environment, config file and pair of constructor arguments.
InitConfig ==
  /\ env \in {Environment(k, m) : k \in EnvKeys, m \in EnvModels}
  /\ file \in Files(MaxFileLines)
  /\ argv = NoArgv
  /\ ctor \in {[api_key |-> k, model |-> m] :
                 k \in {None, Some(""), Some("sk-arg")}, m \in {None, Some("gpt-oss-120b")}}
  /\ server = <<>>
  /\ stack = <<>>
  /\ pc = "construct"
  /\ Fresh

NextConfig == Construct

SpecConfig == InitConfig /\ [][NextConfig]_vars

\* The state CerebrasClient(api_key="sk-arg") leaves with no environment
\* variable and no config file.
Constructed ==
  /\ env = Environment(None, None)
  /\ file = NoFile
  /\ argv = NoArgv
  /\ ctor = [api_key |-> Some("sk-arg"), model |-> None]
  /\ stack = <<>>
  /\ pc = "idle"
  /\ client = NewClient(ctor.api_key, ctor.model, env, FileText(file))
  /\ op = NoCall
  /\ trace = <<>>
  /\ sessions = <<>>
  /\ requests = <<>>
  /\ resp = NoResponse
  /\ rest = ""
  /\ nread = 0
  /\ emitted = <<>>
  /\ ret = JNull
  /\ exc = NoExc
  /\ stdout = <<>>
  /\ stderr = <<>>
  /\ exit_status = None

\* A program that uses the class makes MaxCalls calls, one after the other.
InitApi ==
  /\ server \in [1..MaxCalls -> Responses]
  /\ Constructed

NextApi ==
  \/ ApiCall
  \/ Code
  \/ Complete
  \/ ChatPost
  \/ ChatResponse
  \/ Return
  \/ Unwind
  \/ StreamPost
  \/ StreamResponse
  \/ StreamLine
  \/ StreamEnd

SpecApi == InitApi /\ [][NextApi]_vars

\* One stream() call answered 200, over every body of at most MaxLines
\* catalogued lines.
StreamCalls == {StreamCall("Hi", None), StreamCall("Hi", Some("Be terse"))}

InitStream ==
  /\ server \in {<<r>> : r \in SseResponses(MaxLines)}
  /\ Constructed

StartStream ==
  /\ pc = "idle"
  /\ stack = <<>>
  /\ server # <<>>
  /\ \E c \in StreamCalls :
       /\ op' = c
       /\ stack' = <<c.name>>
       /\ trace' = Append(trace, c)
  /\ pc' = "call"
  /\ UNCHANGED <<inputs, ctor, server, client, http, emitted, ret, exc, output>>

NextStream ==
  \/ StartStream
  \/ StreamPost
  \/ StreamResponse
  \/ StreamLine
  \/ StreamEnd

SpecStream == InitStream /\ [][NextStream]_vars

(***************************************************************************)
(* Properties.                                                             *)
(***************************************************************************)
\* The lines of the body being streamed, by construction.
Script == resp.script

Kind(i) == IF i \in 1..Len(Script) THEN Script[i].kind ELSE "none"

\* The fragments the lines 1..n of the body carry, in order.
RECURSIVE Fragments(_, _)
Fragments(script, n) ==
  IF n = 0 THEN <<>>
  ELSE IF script[n].kind = "content"
    THEN Append(Fragments(script, n - 1), JStr(script[n].content))
  ELSE Fragments(script, n - 1)

\* A stream() call is reading a body or has just ended.
Streaming == trace # <<>> /\ trace[Len(trace)].name = "stream" /\ resp.status = 200

StreamOver == Streaming /\ stack = <<>> /\ pc \in {"return", "raise"}

\* C1: once the line `data: [DONE]` was read, no line of the body yields a
\* fragment: not the [DONE] line, and no line that comes after it.
C1_DoneEndsSequence ==
  [][(pc = "read" /\ \E i \in 1..(nread + 1) : Kind(i) = "done")
       => emitted' = emitted]_vars

\* C2: a data line whose payload is JSON without choices[0].delta.content
\* yields no fragment and raises nothing; the stream goes on to the next line.
C2_ShapelessFrameSkipped ==
  [][(pc = "read" /\ Kind(nread + 1) \in {"nocontent", "noshape"})
       => (pc' = "read" /\ emitted' = emitted /\ exc' = exc)]_vars

\* C3: a data line whose payload is not JSON is skipped without raising, and
\* once such a line was read every valid frame that comes after it in the
\* body has its fragment emitted.
C3_LaterFramesEmitted ==
  /\ (pc = "raise" /\ Streaming) => Kind(nread) # "badjson"
  /\ StreamOver =>
       \A i \in 1..nread : \A j \in (i + 1)..Len(Script) :
         (Kind(i) = "badjson" /\ Kind(j) = "content")
           => \E k \in 1..Len(emitted) : emitted[k] = JStr(Script[j].content)

\* A body of well-formed frames and of lines that are no data lines,
\* terminated by `data: [DONE]`.
WellFormedBody ==
  /\ Streaming
  /\ Script # <<>>
  /\ Kind(Len(Script)) = "done"
  /\ \A i \in 1..(Len(Script) - 1) : Kind(i) \in {"content", "other"}

\* C4: over a body of well-formed frames terminated by `data: [DONE]`, the
\* fragments emitted are at every moment exactly the choices[0].delta.content
\* values of the lines read so far, in arrival order; the call never raises;
\* and once the body is exhausted every line was read and the call ends with
\* all of them emitted.
C4_FragmentsInOrder ==
  WellFormedBody =>
    /\ pc \in {"read", "return"}
    /\ nread <= Len(Script)
    /\ emitted = Fragments(Script, nread)
    /\ (pc = "read" /\ rest = "") => (nread = Len(Script) /\ ENABLED StreamEnd)
    /\ pc = "return" => (nread = Len(Script) /\ stack = <<>>)

C4_Witness ==
  /\ WellFormedBody
  /\ pc = "return"
  /\ <<Kind(1), Kind(2), Kind(3)>> = <<"content", "content", "done">>
  /\ emitted = <<JStr("Hel"), JStr("lo")>>

(***************************************************************************)
(* Configuration.                                                          *)
(***************************************************************************)
\* The non-empty values the config file's lines give a key, by construction.
FileValues(key) ==
  {file.entries[i].value : i \in {j \in 1..Len(file.entries) :
                                    /\ file.entries[j].key = key
                                    /\ file.entries[j].value # ""}}

\* The constructor has run and has not raised.
Built == pc = "idle" /\ client # NoClient

C6_Original ==
  (pc # "construct" /\ ctor.api_key = None /\ env.CEREBRAS_API_KEY # None)
    => (Built /\ client.api_key = env.CEREBRAS_API_KEY)

\* C6: whenever CEREBRAS_API_KEY is set to a non-empty value and no api_key
\* argument is passed, construction succeeds whatever the config file holds,
\* and the client's api_key is the environment's value verbatim.
C6_EnvKeyUsedVerbatim ==
  (pc # "construct" /\ ctor.api_key = None /\ Truthy(env.CEREBRAS_API_KEY))
    => (Built /\ client.api_key = env.CEREBRAS_API_KEY)

C6_Witness ==
  /\ Built
  /\ ctor.api_key = None
  /\ env.CEREBRAS_API_KEY = Some("sk-env")
  /\ "sk-file" \in FileValues("api_key")
  /\ client.api_key = Some("sk-env")

\* Neither the constructor's argument, the environment nor the config file
\* supplies an api_key.
NoKeyAnywhere ==
  /\ ~Truthy(ctor.api_key)
  /\ ~Truthy(env.CEREBRAS_API_KEY)
  /\ FileValues("api_key") = {}

\* C7: with no api_key anywhere the constructor raises the configuration
\* error, and the command-line run writes one message to the error stream
\* and exits with status 1, having opened no session and issued no request;
\* and in every run a session is opened or a request issued only by a client
\* whose api_key is non-empty, the key the request carries.
C7_NoKeyNoNetwork ==
  /\ (NoKeyAnywhere /\ pc \notin {"start", "construct"}) =>
       /\ pc \in {"ctor_raise", "exited"}
       /\ exc.type = "ValueError"
       /\ requests = <<>> /\ sessions = <<>>
       /\ pc = "exited" =>
            (exit_status = <<1>> /\ stderr = <<"Error: " \o ConfigErrorMessage>>
               /\ stdout = <<>>)
  /\ (requests # <<>> \/ sessions # <<>>) =>
       /\ Truthy(client.api_key)
       /\ \A i \in 1..Len(requests) :
            requests[i].headers.Authorization = "Bearer " \o client.api_key[1]

C7_Witness ==
  /\ NoKeyAnywhere
  /\ file.exists
  /\ env.CEREBRAS_API_KEY = Some("")
  /\ pc = "exited"
  /\ exit_status = <<1>>

(***************************************************************************)
(* Requests.                                                               *)
(***************************************************************************)
\* The calls that issue a POST, in order: those of chat and of stream.
IsPosting(c) == c.name \in {"chat", "stream"}

Posting == SelectSeq(trace, IsPosting)

\* The innermost call has not issued its POST yet.
Pending == pc = "call" /\ Top \in {"chat", "stream"}

\* The status codes the server answers, in decimal.
Decimal(status) ==
  CASE status = 401 -> "401"
    [] status = 500 -> "500"
    [] status = 200 -> "200"

\* C8: every call of chat or stream issues exactly one POST, whatever the
\* answer; a call answered by a status other than 200 ends with an error
\* whose message carries the status code and the body verbatim, with no
\* result returned and no fragment yielded.
C8_OnePostAndApiError ==
  /\ Len(requests) = Len(Posting) - (IF Pending THEN 1 ELSE 0)
  /\ pc = "return" => resp.status = 200
  /\ (pc = "raise" /\ resp.status # 200) =>
       /\ exc = [type |-> "Exception",
                 msg |-> "Cerebras API error " \o Decimal(resp.status) \o ": " \o resp.text]
       /\ ret = JNull
       /\ emitted = <<>>

C8_Witness ==
  /\ pc = "raise"
  /\ stack = <<>>
  /\ resp.status = 401
  /\ Len(requests) = 2
  /\ Posting[2].name = "stream"

\* C9: at most one request is outstanding and at most one session open;
\* whenever no exchange is in progress (the call returned, raised, or none
\* was made) every session is closed and every response released; and every
\* request went over a session of its own.
C9_ScopedConnection ==
  /\ Cardinality({i \in 1..Len(requests) : requests[i].state # "released"}) <= 1
  /\ Cardinality({i \in 1..Len(sessions) : sessions[i] = "open"}) <= 1
  /\ pc \in {"idle", "call", "return", "raise", "exited"} =>
       /\ \A i \in 1..Len(sessions) : sessions[i] = "closed"
       /\ \A i \in 1..Len(requests) : requests[i].state = "released"
  /\ pc \in {"wait", "read"} =>
       /\ sessions[Len(sessions)] = "open"
       /\ requests[Len(requests)].session = Len(sessions)
       /\ requests[Len(requests)].state # "released"
  /\ Len(sessions) = Len(requests)
  /\ \A i \in 1..Len(requests) : \A j \in 1..Len(requests) :
       i # j => requests[i].session # requests[j].session

C9_Witness ==
  /\ stack = <<>>
  /\ pc = "raise"
  /\ exc.type = "KeyError"
  /\ emitted # <<>>
  /\ Len(sessions) = 2
  /\ sessions = <<"closed", "closed">>

\* The conversation of a prompt and a system value: C10 as stated, with the
\* system message whenever a system value is given.
ConversationGiven(prompt, system) ==
  IF system # None
  THEN <<[role |-> "system", content |-> system[1]], [role |-> "user", content |-> prompt]>>
  ELSE <<[role |-> "user", content |-> prompt]>>

\* ... with the system message whenever a non-empty system value is given.
Conversation(prompt, system) ==
  IF system # None /\ system # Some("")
  THEN <<[role |-> "system", content |-> system[1]], [role |-> "user", content |-> prompt]>>
  ELSE <<[role |-> "user", content |-> prompt]>>

\* The i-th call is a complete call that has not called chat yet.
Uncalled(i) == i = Len(trace) /\ pc = "call" /\ Top = "complete"

\* C10 as stated.
C10_Original ==
  /\ \A i \in 1..Len(trace) :
       (trace[i].name = "complete" /\ ~Uncalled(i)) =>
         /\ i < Len(trace)
         /\ trace[i + 1] = ChatCall(ConversationGiven(trace[i].prompt, trace[i].system),
                                    trace[i].max_tokens, trace[i].temperature)
  /\ \A j \in 1..Len(requests) :
       Posting[j].name = "stream" =>
         requests[j].json.messages =
           ConversationGiven(Posting[j].prompt, Posting[j].system)

\* C10: complete, and likewise stream, builds a conversation whose last
\* message is the user's prompt, preceded by the system message exactly when
\* a non-empty system value is given; complete passes it, with max_tokens and
\* temperature unchanged, to one chat call, whose POST carries it, and
\* returns what that call returns.
C10_Conversation ==
  /\ \A i \in 1..Len(trace) :
       (trace[i].name = "complete" /\ ~Uncalled(i)) =>
         /\ i < Len(trace)
         /\ trace[i + 1] = ChatCall(Conversation(trace[i].prompt, trace[i].system),
                                    trace[i].max_tokens, trace[i].temperature)
         /\ \A k \in (i + 2)..Len(trace) :
              trace[k].name = "chat" => \E m \in (i + 1)..(k - 1) : trace[m].name = "complete"
  /\ \A j \in 1..Len(requests) :
       /\ Posting[j].name = "stream" =>
            requests[j].json.messages = Conversation(Posting[j].prompt, Posting[j].system)
       /\ Posting[j].name = "chat" =>
            /\ requests[j].json.messages = Posting[j].messages
            /\ requests[j].json.max_tokens = Posting[j].max_tokens
            /\ requests[j].json.temperature = Posting[j].temperature
  /\ (pc = "return" /\ Posting[Len(Posting)].name = "chat") =>
       /\ Kind(1) = "message"
       /\ ret = JStr(Script[1].content)

C10_Witness ==
  /\ pc = "return"
  /\ stack = <<>>
  /\ Len(trace) = 2
  /\ trace[1] = CompleteCall("Hi", Some("Be terse"), DefaultMaxTokens, DefaultTemperature)
  /\ requests[1].json.messages =
       <<[role |-> "system", content |-> "Be terse"], [role |-> "user", content |-> "Hi"]>>
  /\ ret = JStr("Hello")

====
